---- MODULE Spec2Model ----
(***************************************************************************)
(* Model of the qaapi question/answer service (src/testing.go): the JSON  *)
(* HTTP handlers, the /questions/ and /answers/ dispatchers, the          *)
(* repository functions and the two tables they read and write.           *)
(*                                                                         *)
(* Go strings that the code inspects (URL paths) are sequences of         *)
(* one-character strings, so that TrimPrefix, HasSuffix, Split and Atoi   *)
(* are computed character by character as the code computes them.         *)
(* Timestamps (CreatedAt) are not modelled.                                *)
(***************************************************************************)
EXTENDS Integers, Sequences, FiniteSets, Bags, TLC

(* ------------------------------ bounds -------------------------------- *)

\* Largest value the questions id sequence may reach.
MaxQuestions == 2
\* Largest value the answers id sequence may reach.
MaxAnswers == 2
\* Largest number of CreateAnswer calls between their read and their insert.
MaxPending == 1
\* The same two sequence bounds for the specification of the router, whose
\* requests range over many more paths; the second one also bounds the
\* answers of the specification for the text of a question.
RouterMaxQuestions == 1
RouterMaxAnswers == 1

(* ------------------------------ strings ------------------------------- *)

S_questions == <<"/", "q", "u", "e", "s", "t", "i", "o", "n", "s">>
S_questionsSlash == S_questions \o <<"/">>
S_answersWord == <<"a", "n", "s", "w", "e", "r", "s">>
S_slashAnswers == <<"/">> \o S_answersWord
S_answersSlash == S_slashAnswers \o <<"/">>

\* strings.HasPrefix
HasPrefix(s, p) ==
    /\ Len(s) >= Len(p)
    /\ SubSeq(s, 1, Len(p)) = p

\* strings.HasSuffix
HasSuffix(s, p) ==
    /\ Len(s) >= Len(p)
    /\ SubSeq(s, Len(s) - Len(p) + 1, Len(s)) = p

\* strings.TrimPrefix: s without the prefix p, or s itself when p is no prefix.
TrimPrefix(s, p) ==
    IF HasPrefix(s, p) THEN SubSeq(s, Len(p) + 1, Len(s)) ELSE s

\* strings.Split(s, "/"): the pieces between the separators; never empty.
RECURSIVE SplitFrom(_, _, _)
SplitFrom(s, i, cur) ==
    IF i > Len(s) THEN <<cur>>
    ELSE IF s[i] = "/" THEN <<cur>> \o SplitFrom(s, i + 1, <<>>)
    ELSE SplitFrom(s, i + 1, Append(cur, s[i]))

Split(s) == SplitFrom(s, 1, <<>>)

Digits == {"0", "1", "2", "3", "4", "5", "6", "7", "8", "9"}

DigitVal(c) ==
    CASE c = "0" -> 0 [] c = "1" -> 1 [] c = "2" -> 2 [] c = "3" -> 3
      [] c = "4" -> 4 [] c = "5" -> 5 [] c = "6" -> 6 [] c = "7" -> 7
      [] c = "8" -> 8 [] c = "9" -> 9

RECURSIVE DecimalValue(_, _)
DecimalValue(s, acc) ==
    IF s = <<>> THEN acc
    ELSE DecimalValue(Tail(s), acc * 10 + DigitVal(Head(s)))

\* strconv.Atoi: an optional sign, then one or more decimal digits.
\* (The paths of the model are far shorter than the 19 digits at which
\* a 64-bit int overflows.)
Atoi(s) ==
    LET signed == Len(s) > 0 /\ s[1] \in {"+", "-"}
        digits == IF signed THEN Tail(s) ELSE s
        ok     == Len(digits) > 0 /\ \A i \in 1..Len(digits) : digits[i] \in Digits
        val    == IF ok THEN DecimalValue(digits, 0) ELSE 0
    IN  [ok |-> ok, val |-> IF signed /\ s[1] = "-" THEN 0 - val ELSE val]

(* ------------------------------- state -------------------------------- *)

VARIABLES
    questions,  \* rows of table questions: [id, text]
    answers,    \* rows of table answers: [id, question_id, user_id, text]
    qSeq,       \* last value drawn from the questions id sequence
    aSeq,       \* last value drawn from the answers id sequence
    pending,    \* bag of CreateAnswer calls between DB.First and DB.Create
    resp,       \* the response written by the last step (NoResponse if none)
    pre,        \* history: the two tables as they were before the last step
    createdQ,   \* history: for every POST /questions answered 201, in order,
                \*          the id returned and the text requested
    deletedQ,   \* history: ids of the questions deleted with a 204
    createdA,   \* history: every answer returned with a 201
    deletedA    \* history: ids of the answers deleted with a 204

store == <<questions, answers, qSeq, aSeq>>
history == <<createdQ, deletedQ, createdA, deletedA>>
vars == <<questions, answers, qSeq, aSeq, pending, resp, pre,
          createdQ, deletedQ, createdA, deletedA>>

(* ------------------------------ errors -------------------------------- *)

Nil == "nil"
ErrRecordNotFound == "record not found"
ErrStorage == "storage failure"
ErrForeignKey == "foreign key violation"

(* ---------------------------- repository ------------------------------ *)

\* The row DB.First finds by primary key, as a set: empty when no row matches.
QuestionRows(id) == {q \in questions : q.id = id}
AnswerRows(id) == {a \in answers : a.id = id}

\* (Mutant: a preload that does not filter by question.)
PreloadAllAnswers(id) == answers
\* Preload("Answers"): the answers whose question_id is the question's id.
PreloadAnswers(id) == {a \in answers : a.question_id = id}

\* A question as json.Encode writes it; "answers" is omitted when empty.
QuestionJSON(q, as) == [id |-> q.id, text |-> q.text, answers |-> as]

\* (Mutant: the id is one more than the largest stored id, so the id of a
\* deleted question can be given again.)
CreateQuestionReusingId(text, fail) ==
    IF fail
    THEN [err |-> ErrStorage, row |-> {}, questions |-> questions, qSeq |-> qSeq]
    ELSE LET ids == {x.id : x \in questions}
             top == IF ids = {} THEN 0 ELSE CHOOSE m \in ids : \A i \in ids : i <= m
             q   == [id |-> top + 1, text |-> text]
         IN  [err |-> Nil, row |-> {q},
              questions |-> questions \cup {q}, qSeq |-> qSeq + 1]
\* CreateQuestion: the row gets the next value of the id sequence
\* (autoIncrement), which never gives a value twice.
CreateQuestion(text, fail) ==
    IF fail
    THEN [err |-> ErrStorage, row |-> {}, questions |-> questions, qSeq |-> qSeq]
    ELSE LET q == [id |-> qSeq + 1, text |-> text]
         IN  [err |-> Nil, row |-> {q},
              questions |-> questions \cup {q}, qSeq |-> qSeq + 1]

\* (Mutant: the list preloads the answers as the single fetch does.)
GetAllQuestionsPreloading(fail) ==
    IF fail THEN [err |-> ErrStorage, qs |-> {}]
    ELSE [err |-> Nil,
          qs |-> {QuestionJSON(q, PreloadAnswers(q.id)) : q \in questions}]
\* GetAllQuestions: every row of questions, no answers preloaded.
GetAllQuestions(fail) ==
    IF fail THEN [err |-> ErrStorage, qs |-> {}]
    ELSE [err |-> Nil, qs |-> {QuestionJSON(q, {}) : q \in questions}]

\* GetQuestionWithAnswers: the row with its answers, or the error of First.
GetQuestionWithAnswers(id, fail) ==
    IF fail THEN [err |-> ErrStorage, qs |-> {}]
    ELSE IF QuestionRows(id) = {} THEN [err |-> ErrRecordNotFound, qs |-> {}]
    ELSE [err |-> Nil,
          qs |-> {QuestionJSON(q, PreloadAnswers(id)) : q \in QuestionRows(id)}]

\* (Mutant: no cascade.)
OnDeleteKeep(as, qid) == as
\* The foreign key of answers.question_id, ON DELETE CASCADE (the tag on
\* Question.Answers): the answers of a deleted question go with it.
OnDeleteCascade(as, qid) == {a \in as : a.question_id # qid}

\* DB.Delete(&Question{}, id): its result and the tables after it.
DBDeleteQuestion(id, fail) ==
    IF fail
    THEN [RowsAffected |-> 0, Error |-> ErrStorage,
          questions |-> questions, answers |-> answers]
    ELSE [RowsAffected |-> Cardinality(QuestionRows(id)), Error |-> Nil,
          questions |-> questions \ QuestionRows(id),
          answers |-> IF QuestionRows(id) = {} THEN answers
                      ELSE OnDeleteCascade(answers, id)]

\* (Mutant: RowsAffected is not looked at.)
DeleteErrorUnchecked(res) == res.Error
\* What DeleteQuestion and DeleteAnswer return for the result of DB.Delete.
DeleteError(res) ==
    IF res.RowsAffected = 0 THEN ErrRecordNotFound ELSE res.Error

DeleteQuestion(id, fail) ==
    LET res == DBDeleteQuestion(id, fail)
    IN  [err |-> DeleteError(res), questions |-> res.questions,
         answers |-> res.answers]

\* CreateAnswer, first statement: DB.First(&q, a.QuestionID).
FirstQuestion(id, fail) ==
    IF fail THEN ErrStorage
    ELSE IF QuestionRows(id) = {} THEN ErrRecordNotFound
    ELSE Nil

\* (Mutant: no foreign key.)
ForeignKeyUnchecked(qid) == TRUE
\* The foreign key of answers.question_id, checked by the store on insert.
ForeignKeyHolds(qid) == QuestionRows(qid) # {}

\* CreateAnswer, second statement: DB.Create(a). The id is drawn from the
\* sequence before the foreign key is checked, so a rejected insert uses one up.
InsertAnswer(a, fail) ==
    IF fail
    THEN [err |-> ErrStorage, row |-> {}, answers |-> answers, aSeq |-> aSeq]
    ELSE IF ~ForeignKeyHolds(a.question_id)
    THEN [err |-> ErrForeignKey, row |-> {}, answers |-> answers,
          aSeq |-> aSeq + 1]
    ELSE LET row == [id |-> aSeq + 1, question_id |-> a.question_id,
                     user_id |-> a.user_id, text |-> a.text]
         IN  [err |-> Nil, row |-> {row}, answers |-> answers \cup {row},
              aSeq |-> aSeq + 1]

GetAnswer(id, fail) ==
    IF fail THEN [err |-> ErrStorage, as |-> {}]
    ELSE IF AnswerRows(id) = {} THEN [err |-> ErrRecordNotFound, as |-> {}]
    ELSE [err |-> Nil, as |-> AnswerRows(id)]

\* (Mutant: the delete takes every answer of the same question.)
DBDeleteAnswerOfQuestion(id, fail) ==
    IF fail
    THEN [RowsAffected |-> 0, Error |-> ErrStorage, answers |-> answers]
    ELSE [RowsAffected |-> Cardinality(AnswerRows(id)), Error |-> Nil,
          answers |-> {a \in answers :
                          \A d \in AnswerRows(id) : a.question_id # d.question_id}]
\* DB.Delete(&Answer{}, id): its result and the table after it.
DBDeleteAnswer(id, fail) ==
    IF fail
    THEN [RowsAffected |-> 0, Error |-> ErrStorage, answers |-> answers]
    ELSE [RowsAffected |-> Cardinality(AnswerRows(id)), Error |-> Nil,
          answers |-> answers \ AnswerRows(id)]

DeleteAnswer(id, fail) ==
    LET res == DBDeleteAnswer(id, fail)
    IN  [err |-> DeleteError(res), answers |-> res.answers]

(* ------------------------------ requests ------------------------------ *)

\* A request: its method, its URL path, its decoded JSON body (ok is FALSE
\* when json.Decode fails) and whether the store fails during its first
\* repository call.
NoBody == [ok |-> FALSE, user_id |-> "", text |-> ""]
Request(method, path, body, fail) ==
    [method |-> method, path |-> path, body |-> body, fail |-> fail]

NoId == [ok |-> FALSE, val |-> 0]
NoResponse ==
    [method |-> "", path |-> <<>>, route |-> "none", status |-> 0,
     err |-> "none", storageFailure |-> FALSE, id |-> NoId,
     qs |-> {}, as |-> {}]

\* The response of a step: the handler that wrote it, the status, the error
\* the repository returned ("none" when it was not called), whether the
\* store failed during the call, the id parsed from the path, and the body.
Reply(r, route, status, err, failed, id, qs, as) ==
    resp' = [method |-> r.method, path |-> r.path, route |-> route,
             status |-> status, err |-> err, storageFailure |-> failed,
             id |-> id, qs |-> qs, as |-> as]

Snapshot == pre' = [questions |-> questions, answers |-> answers]

(* ------------------------------- router ------------------------------- *)

IsQuestionsRoot(path) == path = S_questionsSlash \/ path = S_questions

\* (Mutant: the switch of the handler func of "/questions/" alone, without
\* the POST .../answers check before it.)
QuestionsRouteSwitchOnly(method, path) ==
    IF method = "GET" /\ IsQuestionsRoot(path) THEN "GetAllQuestionsHandler"
    ELSE IF method = "POST" /\ IsQuestionsRoot(path) THEN "CreateQuestionHandler"
    ELSE IF method = "GET" THEN "GetQuestionHandler"
    ELSE IF method = "DELETE" THEN "DeleteQuestionHandler"
    ELSE "NotFound"

\* The handler func of "/questions/": the handler a request is passed to.
\* The cases are tried in order, as the if and the switch of the code.
QuestionsRoute(method, path) ==
    IF method = "POST" /\ HasSuffix(path, S_slashAnswers) THEN "CreateAnswerHandler"
    ELSE IF method = "GET" /\ IsQuestionsRoot(path) THEN "GetAllQuestionsHandler"
    ELSE IF method = "POST" /\ IsQuestionsRoot(path) THEN "CreateQuestionHandler"
    ELSE IF method = "GET" THEN "GetQuestionHandler"
    ELSE IF method = "DELETE" THEN "DeleteQuestionHandler"
    ELSE "NotFound"

\* The handler func of "/answers/".
AnswersRoute(method, path) ==
    IF method = "GET" THEN "GetAnswerHandler"
    ELSE IF method = "DELETE" THEN "DeleteAnswerHandler"
    ELSE "MethodNotAllowed"

\* The mux: a pattern ending in "/" takes every path it is a prefix of.
Route(r) ==
    IF HasPrefix(r.path, S_questionsSlash) THEN QuestionsRoute(r.method, r.path)
    ELSE IF HasPrefix(r.path, S_answersSlash) THEN AnswersRoute(r.method, r.path)
    ELSE "NoPattern"

(* ------------------------------ handlers ------------------------------ *)

\* (Mutant: a failed CreateAnswer is reported as not-found.)
CreateAnswerStatusNotFound(err) == IF err # Nil THEN 404 ELSE 201
\* The status CreateAnswerHandler writes for the error of CreateAnswer.
CreateAnswerStatus(err) == IF err # Nil THEN 400 ELSE 201

\* maxQ bounds the id sequence of the specification the action is part of.
CreateQuestionHandler(r, maxQ) ==
    /\ Route(r) = "CreateQuestionHandler"
    /\ IF ~r.body.ok
       THEN /\ Reply(r, "CreateQuestionHandler", 400, "none", FALSE, NoId, {}, {})
            /\ UNCHANGED <<store, history>>
       ELSE LET res == CreateQuestion(r.body.text, r.fail)
            IN  /\ r.fail \/ qSeq < maxQ
                /\ questions' = res.questions
                /\ qSeq' = res.qSeq
                /\ createdQ' = IF res.err # Nil THEN createdQ
                               ELSE Append(createdQ,
                                           [id |-> (CHOOSE q \in res.row : TRUE).id,
                                            text |-> r.body.text])
                /\ Reply(r, "CreateQuestionHandler",
                         IF res.err # Nil THEN 500 ELSE 201,
                         res.err, r.fail, NoId,
                         {QuestionJSON(q, {}) : q \in res.row}, {})
                /\ UNCHANGED <<answers, aSeq, deletedQ, createdA, deletedA>>
    /\ Snapshot
    /\ UNCHANGED pending

GetAllQuestionsHandler(r) ==
    /\ Route(r) = "GetAllQuestionsHandler"
    /\ LET res == GetAllQuestions(r.fail)
       IN  Reply(r, "GetAllQuestionsHandler",
                 IF res.err # Nil THEN 500 ELSE 200,
                 res.err, r.fail, NoId, res.qs, {})
    /\ Snapshot
    /\ UNCHANGED <<store, history, pending>>

GetQuestionHandler(r) ==
    /\ Route(r) = "GetQuestionHandler"
    /\ LET id == Atoi(TrimPrefix(r.path, S_questionsSlash))
       IN  IF ~id.ok
           THEN Reply(r, "GetQuestionHandler", 400, "none", FALSE, id, {}, {})
           ELSE LET res == GetQuestionWithAnswers(id.val, r.fail)
                IN  Reply(r, "GetQuestionHandler",
                          IF res.err # Nil THEN 404 ELSE 200,
                          res.err, r.fail, id, res.qs, {})
    /\ Snapshot
    /\ UNCHANGED <<store, history, pending>>

DeleteQuestionHandler(r) ==
    /\ Route(r) = "DeleteQuestionHandler"
    /\ LET id == Atoi(TrimPrefix(r.path, S_questionsSlash))
       IN  IF ~id.ok
           THEN /\ Reply(r, "DeleteQuestionHandler", 400, "none", FALSE, id, {}, {})
                /\ UNCHANGED <<store, history>>
           ELSE LET res == DeleteQuestion(id.val, r.fail)
                IN  /\ questions' = res.questions
                    /\ answers' = res.answers
                    /\ deletedQ' = IF res.err # Nil THEN deletedQ
                                   ELSE deletedQ \cup {id.val}
                    /\ Reply(r, "DeleteQuestionHandler",
                             IF res.err # Nil THEN 404 ELSE 204,
                             res.err, r.fail, id, {}, {})
                    /\ UNCHANGED <<qSeq, aSeq, createdQ, createdA, deletedA>>
    /\ Snapshot
    /\ UNCHANGED pending

\* CreateAnswerHandler up to and including the first statement of
\* CreateAnswer (DB.First). When the question is found the call waits in
\* pending for its insert, and other requests may be served in between.
\* maxA bounds the id sequence of the specification the action is part of.
CreateAnswerHandler(r, maxA) ==
    /\ Route(r) = "CreateAnswerHandler"
    /\ LET parts == Split(TrimPrefix(r.path, S_questionsSlash))
           id    == Atoi(parts[1])
           err   == FirstQuestion(id.val, r.fail)
           call  == [method |-> r.method, path |-> r.path, id |-> id,
                     a |-> [question_id |-> id.val, user_id |-> r.body.user_id,
                            text |-> r.body.text]]
       IN  IF Len(parts) < 2 \/ parts[2] # S_answersWord
           THEN /\ Reply(r, "CreateAnswerHandler", 400, "none", FALSE, NoId, {}, {})
                /\ UNCHANGED pending
           ELSE IF ~id.ok
           THEN /\ Reply(r, "CreateAnswerHandler", 400, "none", FALSE, id, {}, {})
                /\ UNCHANGED pending
           ELSE IF ~r.body.ok
           THEN /\ Reply(r, "CreateAnswerHandler", 400, "none", FALSE, id, {}, {})
                /\ UNCHANGED pending
           ELSE IF err # Nil
           THEN /\ Reply(r, "CreateAnswerHandler", CreateAnswerStatus(err),
                         err, r.fail, id, {}, {})
                /\ UNCHANGED pending
           ELSE /\ BagCardinality(pending) < MaxPending
                /\ aSeq + BagCardinality(pending) < maxA
                /\ pending' = pending (+) SetToBag({call})
                /\ resp' = NoResponse
    /\ Snapshot
    /\ UNCHANGED <<store, history>>

\* The rest of CreateAnswerHandler: the second statement of CreateAnswer
\* (DB.Create) and the response.
CreateAnswerInsert(call, fail) ==
    /\ BagIn(call, pending)
    /\ LET res == InsertAnswer(call.a, fail)
       IN  /\ answers' = res.answers
           /\ aSeq' = res.aSeq
           /\ createdA' = createdA \cup res.row
           /\ Reply(call, "CreateAnswerHandler", CreateAnswerStatus(res.err),
                    res.err, fail, call.id, {}, res.row)
    /\ pending' = pending (-) SetToBag({call})
    /\ Snapshot
    /\ UNCHANGED <<questions, qSeq, createdQ, deletedQ, deletedA>>

\* http.NotFound, the default of the "/questions/" switch.
NotFound(r) ==
    /\ Route(r) = "NotFound"
    /\ Reply(r, "NotFound", 404, "none", FALSE, NoId, {}, {})
    /\ Snapshot
    /\ UNCHANGED <<store, history, pending>>

GetAnswerHandler(r) ==
    /\ Route(r) = "GetAnswerHandler"
    /\ LET id == Atoi(TrimPrefix(r.path, S_answersSlash))
       IN  IF ~id.ok
           THEN Reply(r, "GetAnswerHandler", 400, "none", FALSE, id, {}, {})
           ELSE LET res == GetAnswer(id.val, r.fail)
                IN  Reply(r, "GetAnswerHandler",
                          IF res.err # Nil THEN 404 ELSE 200,
                          res.err, r.fail, id, {}, res.as)
    /\ Snapshot
    /\ UNCHANGED <<store, history, pending>>

DeleteAnswerHandler(r) ==
    /\ Route(r) = "DeleteAnswerHandler"
    /\ LET id == Atoi(TrimPrefix(r.path, S_answersSlash))
       IN  IF ~id.ok
           THEN /\ Reply(r, "DeleteAnswerHandler", 400, "none", FALSE, id, {}, {})
                /\ UNCHANGED <<store, history>>
           ELSE LET res == DeleteAnswer(id.val, r.fail)
                IN  /\ answers' = res.answers
                    /\ deletedA' = IF res.err # Nil THEN deletedA
                                   ELSE deletedA \cup {id.val}
                    /\ Reply(r, "DeleteAnswerHandler",
                             IF res.err # Nil THEN 404 ELSE 204,
                             res.err, r.fail, id, {}, {})
                    /\ UNCHANGED <<questions, qSeq, aSeq, createdQ, deletedQ,
                                   createdA>>
    /\ Snapshot
    /\ UNCHANGED pending

\* The default of the "/answers/" switch.
MethodNotAllowed(r) ==
    /\ Route(r) = "MethodNotAllowed"
    /\ Reply(r, "MethodNotAllowed", 405, "none", FALSE, NoId, {}, {})
    /\ Snapshot
    /\ UNCHANGED <<store, history, pending>>

(* ------------------------------- inputs ------------------------------- *)

MalformedBody == NoBody
\* The bodies of POST /questions: one that json.Decode rejects, and one for
\* each text.
QuestionBodies(texts) ==
    {MalformedBody} \cup [ok : {TRUE}, user_id : {""}, text : texts]
AnswerBodies == {MalformedBody, [ok |-> TRUE, user_id |-> "u1", text |-> "a1"]}

\* The requests with the paths in ids where an id is expected: every
\* endpoint of the service, and a method that none of them takes.
RequestsOver(ids, questionBodies, failures) ==
    LET questionPaths == {S_questionsSlash \o t : t \in ids}
        answersPaths  == {S_questionsSlash \o t \o S_slashAnswers : t \in ids}
        answerPaths   == {S_answersSlash \o t : t \in ids}
    IN  {Request("POST", S_questionsSlash, b, f) :
            b \in questionBodies, f \in failures}
        \cup {Request("GET", S_questionsSlash, NoBody, f) : f \in failures}
        \cup {Request(m, p, NoBody, f) :
                m \in {"GET", "DELETE"}, p \in questionPaths \cup answerPaths,
                f \in failures}
        \cup {Request("POST", p, b, f) :
                p \in answersPaths, b \in AnswerBodies, f \in failures}
        \cup {Request("PUT", p, NoBody, FALSE) : p \in questionPaths \cup answerPaths}

\* What a client may write where a path expects an id.
IdTokens == {<<"1">>, <<"2">>, <<"x">>}

Requests == RequestsOver(IdTokens, QuestionBodies({"t1"}), BOOLEAN)

\* The requests of the specification for the text of a question: questions
\* are created with either of two texts.
TextIdTokens == {<<"1">>, <<"2">>}
TextRequests == RequestsOver(TextIdTokens, QuestionBodies({"t1", "t2"}), BOOLEAN)

\* The requests of the router's specification: every method on every path,
\* the store not failing. The paths take further shapes: signs, text in
\* the place of the id, "answers" in other places, a trailing "/".
RouterIdTokens == {<<"1">>, <<"+", "1">>, <<"x">>, <<"1", "x">>}
RouterQuestionPaths ==
    {S_questionsSlash}
        \cup {S_questionsSlash \o t : t \in RouterIdTokens}
        \cup {S_questionsSlash \o t \o S_slashAnswers : t \in RouterIdTokens}
        \cup {S_questionsSlash \o S_answersWord,
              S_questionsSlash \o <<"1", "/">>,
              S_questionsSlash \o <<"1", "/", "x">> \o S_slashAnswers,
              S_questionsSlash \o <<"1">> \o S_slashAnswers \o <<"/">>,
              S_questionsSlash \o <<"1">> \o S_slashAnswers \o S_slashAnswers}
RouterAnswerPaths == {S_answersSlash \o <<"1">>, S_answersSlash \o <<"x">>}
RouterBodies == {MalformedBody, [ok |-> TRUE, user_id |-> "u1", text |-> "t1"]}
RouterMethods == {"GET", "POST", "DELETE", "PUT"}
RouterRequests ==
    {Request("POST", p, b, FALSE) : p \in RouterQuestionPaths, b \in RouterBodies}
        \cup {Request(m, p, NoBody, FALSE) :
                m \in RouterMethods \ {"POST"}, p \in RouterQuestionPaths}
        \cup {Request(m, p, NoBody, FALSE) :
                m \in RouterMethods, p \in RouterAnswerPaths}

(* ---------------------------- specification --------------------------- *)

Init ==
    /\ questions = {}
    /\ answers = {}
    /\ qSeq = 0
    /\ aSeq = 0
    /\ pending = EmptyBag
    /\ resp = NoResponse
    /\ pre = [questions |-> {}, answers |-> {}]
    /\ createdQ = <<>>
    /\ deletedQ = {}
    /\ createdA = {}
    /\ deletedA = {}

\* One step: some request is served by the handler it is routed to, or a
\* CreateAnswer call that has read its question goes on to its insert.
Serve(requests, maxQ, maxA) ==
    \/ \E r \in requests : CreateQuestionHandler(r, maxQ)
    \/ \E r \in requests : GetAllQuestionsHandler(r)
    \/ \E r \in requests : GetQuestionHandler(r)
    \/ \E r \in requests : DeleteQuestionHandler(r)
    \/ \E r \in requests : CreateAnswerHandler(r, maxA)
    \/ \E call \in BagToSet(pending), fail \in BOOLEAN : CreateAnswerInsert(call, fail)
    \/ \E r \in requests : NotFound(r)
    \/ \E r \in requests : GetAnswerHandler(r)
    \/ \E r \in requests : DeleteAnswerHandler(r)
    \/ \E r \in requests : MethodNotAllowed(r)

Next == Serve(Requests, MaxQuestions, MaxAnswers)

Spec == Init /\ [][Next]_vars

NextRouter == Serve(RouterRequests, RouterMaxQuestions, RouterMaxAnswers)

SpecRouter == Init /\ [][NextRouter]_vars

NextTexts == Serve(TextRequests, MaxQuestions, RouterMaxAnswers)

SpecTexts == Init /\ [][NextTexts]_vars

(* ------------------------------- claims ------------------------------- *)

Ids(rows) == {x.id : x \in rows}
CreatedQuestionIds == {createdQ[i].id : i \in 1..Len(createdQ)}
Unchanged == questions = pre.questions /\ answers = pre.answers

\* C1: once DELETE /questions/{id} has answered 204, no stored answer has
\* that question_id, and GET /answers/{answerId} answers 404 for every answer
\* that was created under that question.
C1_CascadeDelete ==
    /\ \A a \in answers : a.question_id \notin deletedQ
    /\ (resp.route = "DeleteQuestionHandler" /\ resp.status = 204)
          => \A a \in answers : a.question_id # resp.id.val
    /\ (/\ resp.route = "GetAnswerHandler"
        /\ resp.id.ok
        /\ \E a \in createdA : a.id = resp.id.val /\ a.question_id \in deletedQ)
          => resp.status = 404

\* C1 witness: an answer that was created and never deleted by its own id is
\* fetched after its question was deleted, and the fetch answers 404.
C1_Witness ==
    /\ resp.route = "GetAnswerHandler"
    /\ resp.status = 404
    /\ ~resp.storageFailure
    /\ \E a \in createdA :
          /\ a.id = resp.id.val
          /\ a.question_id \in deletedQ
          /\ a.id \notin deletedA

\* C2: POST /questions/{id}/answers with a numeric id that no stored question
\* has answers 400 and leaves the questions and the answers as they were.
C2_AnswerNeedsQuestion ==
    (/\ resp.route = "CreateAnswerHandler"
     /\ resp.id.ok
     /\ resp.id.val \notin Ids(pre.questions))
        => (resp.status = 400 /\ Unchanged)

\* C2 witness: a well-formed answer for a missing question is refused while
\* another question is stored.
C2_Witness ==
    /\ resp.route = "CreateAnswerHandler"
    /\ resp.id.ok
    /\ resp.id.val \notin Ids(pre.questions)
    /\ resp.err = ErrRecordNotFound
    /\ resp.status = 400
    /\ pre.questions # {}

\* C3: GET and DELETE of /questions/{id} and of /answers/{id} answer 404
\* for every numeric id that no stored row has: never issued, or deleted.
C3_MissingIs404 ==
    /\ (/\ resp.route \in {"GetQuestionHandler", "DeleteQuestionHandler"}
        /\ resp.id.ok
        /\ resp.id.val \notin Ids(pre.questions))
          => resp.status = 404
    /\ (/\ resp.route \in {"GetAnswerHandler", "DeleteAnswerHandler"}
        /\ resp.id.ok
        /\ resp.id.val \notin Ids(pre.answers))
          => resp.status = 404

\* C3 witness: a DELETE of a question that an earlier DELETE removed with a
\* 204 answers 404, the store having answered without failing.
C3_Witness ==
    /\ resp.route = "DeleteQuestionHandler"
    /\ resp.id.ok
    /\ resp.id.val \in deletedQ
    /\ ~resp.storageFailure
    /\ resp.status = 404

\* C4, as claimed: whenever the store fails during a repository call, the
\* response has status 500, whatever the endpoint.
C4_StorageFailureIs500 ==
    resp.storageFailure => resp.status = 500

\* C5: GET /questions lists exactly the questions created and not deleted
\* since: their ids are the created ids less the deleted ones, there are as
\* many entries as creates when nothing was deleted, and no entry carries
\* answers. (The list is a set: its order is the store's.)
C5_ListIsCreatedLessDeleted ==
    /\ (resp.route = "GetAllQuestionsHandler" /\ ~resp.storageFailure)
          => resp.status = 200
    /\ (resp.route = "GetAllQuestionsHandler" /\ resp.status = 200)
          => /\ Ids(resp.qs) = CreatedQuestionIds \ deletedQ
             /\ Cardinality(resp.qs) = Len(createdQ) - Cardinality(deletedQ)
             /\ \A q \in resp.qs :
                   /\ q.answers = {}
                   /\ \E i \in 1..Len(createdQ) :
                         createdQ[i].id = q.id /\ createdQ[i].text = q.text

\* C5 witness: a non-empty list, after a question was deleted, while answers
\* are stored.
C5_Witness ==
    /\ resp.route = "GetAllQuestionsHandler"
    /\ resp.status = 200
    /\ resp.qs # {}
    /\ deletedQ # {}
    /\ answers # {}

\* C6: every POST /questions answered 201 returns an id that no other
\* created question ever had, deleted ones included, and until that question
\* is deleted it is stored with the requested text and GET /questions/{id}
\* answers 200 with that text (the store answering the GET).
C6_CreateThenGet ==
    /\ \A i, j \in 1..Len(createdQ) : createdQ[i].id = createdQ[j].id => i = j
    /\ (resp.route = "CreateQuestionHandler" /\ resp.status = 201)
          => resp.qs = {QuestionJSON(createdQ[Len(createdQ)], {})}
    /\ \A i \in 1..Len(createdQ) :
          createdQ[i].id \notin deletedQ
            => /\ [id |-> createdQ[i].id, text |-> createdQ[i].text] \in questions
               /\ (/\ resp.route = "GetQuestionHandler"
                   /\ resp.id.ok
                   /\ resp.id.val = createdQ[i].id
                   /\ ~resp.storageFailure)
                     => /\ resp.status = 200
                        /\ resp.qs # {}
                        /\ \A q \in resp.qs :
                              q.id = createdQ[i].id /\ q.text = createdQ[i].text

\* C6 witness: a question is fetched with a 200 after another one was
\* created and one was deleted.
C6_Witness ==
    /\ resp.route = "GetQuestionHandler"
    /\ resp.status = 200
    /\ Len(createdQ) >= 2
    /\ deletedQ # {}

\* C7: GET /questions/{id} of a stored question answers with that question
\* and exactly the stored answers whose question_id is id: those created
\* under it and not deleted, and none of another question.
C7_QuestionWithItsAnswers ==
    /\ (/\ resp.route = "GetQuestionHandler"
        /\ resp.id.ok
        /\ resp.id.val \in Ids(pre.questions)
        /\ ~resp.storageFailure)
          => resp.status = 200
    /\ (resp.route = "GetQuestionHandler" /\ resp.status = 200)
          => /\ Ids(resp.qs) = {resp.id.val}
             /\ Cardinality(resp.qs) = 1
             /\ \A q \in resp.qs :
                   /\ q.answers = {a \in pre.answers : a.question_id = resp.id.val}
                   /\ q.answers = {a \in createdA : /\ a.question_id = resp.id.val
                                                    /\ a.id \notin deletedA}

\* C7 witness: the question fetched has an answer, and an answer of another
\* question is stored.
C7_Witness ==
    /\ resp.route = "GetQuestionHandler"
    /\ resp.status = 200
    /\ \E q \in resp.qs : q.answers # {}
    /\ \E a \in answers : a.question_id # resp.id.val

\* C9: every stored answer's question_id is the id of a stored question,
\* also when a question is deleted between the read and the insert of a
\* CreateAnswer for it.
C9_ReferentialIntegrity ==
    \A a \in answers : a.question_id \in Ids(questions)

\* C9 witness: the insert of a CreateAnswer whose read had found the
\* question came after the question's deletion, and the store refused it.
C9_Witness ==
    /\ resp.route = "CreateAnswerHandler"
    /\ resp.err = ErrForeignKey
    /\ resp.id.val \in deletedQ

\* C10: a response with status 400, 404, 405 or 500 leaves the questions and
\* the answers as they were; they change only with a 201 or a 204; and a
\* DELETE /answers/{id} answered 204 removes that one answer and nothing else.
C10_FrameEffect ==
    /\ resp.status \in {400, 404, 405, 500} => Unchanged
    /\ ~Unchanged => resp.status \in {201, 204}
    /\ (resp.route = "DeleteAnswerHandler" /\ resp.status = 204)
          => /\ questions = pre.questions
             /\ answers = {a \in pre.answers : a.id # resp.id.val}
             /\ Cardinality(pre.answers \ answers) = 1

\* C10 witness: an answer is deleted while another answer of the same
\* question stays.
C10_Witness ==
    /\ resp.route = "DeleteAnswerHandler"
    /\ resp.status = 204
    /\ \E d \in pre.answers, a \in answers :
          d.id = resp.id.val /\ a.question_id = d.question_id

(* The claims about the router are checked under SpecRouter. *)

UnderQuestions == HasPrefix(resp.path, S_questionsSlash)
QuestionsRest == TrimPrefix(resp.path, S_questionsSlash)
IsAnswersPost == resp.method = "POST" /\ HasSuffix(resp.path, S_slashAnswers)

\* C8, routing: under "/questions/", every POST whose path ends in
\* "/answers" is served by CreateAnswerHandler, and every other request by
\* one of list, create-question, get-question, delete-question or the 404
\* default.
C8_Routing ==
    UnderQuestions =>
        /\ IsAnswersPost => resp.route = "CreateAnswerHandler"
        /\ ~IsAnswersPost =>
              resp.route \in {"GetAllQuestionsHandler", "CreateQuestionHandler",
                              "GetQuestionHandler", "DeleteQuestionHandler",
                              "NotFound"}

\* C8, as claimed: the routing above, and every request under "/questions/"
\* whose id segment (the text up to the next "/") is there and is not a
\* number ends in 400 with the questions and the answers as they were.
C8_NonNumericAlways400 ==
    /\ C8_Routing
    /\ (/\ UnderQuestions
        /\ QuestionsRest # <<>>
        /\ ~Atoi(Split(QuestionsRest)[1]).ok)
          => (resp.status = 400 /\ Unchanged)

\* C8, amended: the routing above; text that is not a number where the
\* handler reads the id ends in 400 with the questions and the answers as
\* they were, in get-question and delete-question (which read all that
\* follows "/questions/") and in create-answer (which reads up to the first
\* "/"); a request that the 404 default takes ends in 404 whatever its path,
\* with the questions and the answers as they were.
C8_RoutingAndBadIds ==
    /\ C8_Routing
    /\ (/\ resp.route \in {"GetQuestionHandler", "DeleteQuestionHandler"}
        /\ ~Atoi(QuestionsRest).ok)
          => (resp.status = 400 /\ Unchanged)
    /\ (/\ resp.route = "CreateAnswerHandler"
        /\ ~Atoi(Split(QuestionsRest)[1]).ok)
          => (resp.status = 400 /\ Unchanged)
    /\ resp.route = "NotFound" => (resp.status = 404 /\ Unchanged)

\* C8 witness: a POST to .../answers whose id is not a number was served by
\* CreateAnswerHandler and refused, while a question and an answer are stored.
C8_Witness ==
    /\ IsAnswersPost
    /\ resp.route = "CreateAnswerHandler"
    /\ Len(Split(QuestionsRest)) = 2
    /\ ~Atoi(Split(QuestionsRest)[1]).ok
    /\ resp.status = 400
    /\ questions # {}
    /\ answers # {}

====
